---- MODULE Spec2Model ----
(***************************************************************************)
(* tw2.forms calendars: DateTimeConverter, strftime_before1900 and the     *)
(* CalendarDatePicker widget (src/tw2/forms/calendars.py).                 *)
(*                                                                         *)
(* Text is a sequence of one-character strings; offsets are 0-based as in  *)
(* Python, so offset j is the element j+1 of the sequence.                 *)
(***************************************************************************)
EXTENDS Integers, Sequences, FiniteSets, TLC

VARIABLES
    pc,          \* where the scenario stands
    conv,        \* the DateTimeConverter instance (format, not_empty, tzinfo)
    call,        \* the call being made: operation and arguments
    result,      \* what the call returned or raised
    depth,       \* number of to_python frames on the Python stack
    setup_args,  \* setup_calendar.args, the module-level JSFuncCall's options
    widgets      \* per widget: its parameters, strdate and resources list

vars == <<pc, conv, call, result, depth, setup_args, widgets>>

(***************************************************************************)
(* Bounds of the model.                                                    *)
(***************************************************************************)
\* number of pieces a generated pattern is concatenated from
MaxPieces == 3
\* years past 1900 that the year sweep still covers
YearsBeyond == 3
\* the interpreter's recursion limit, in to_python frames
RecursionLimit == 4
\* prepare() calls in one run
MaxPrepares == 3

(***************************************************************************)
(* Text helpers.                                                           *)
(***************************************************************************)
DigitChars == <<"0", "1", "2", "3", "4", "5", "6", "7", "8", "9">>

DigitChar(d) == DigitChars[d + 1]

IsDigit(c) == \E d \in 0..9 : DigitChars[d + 1] = c

DigitVal(c) == CHOOSE d \in 0..9 : DigitChars[d + 1] = c

RECURSIVE DecNat(_)
DecNat(n) == IF n < 10 THEN <<DigitChar(n)>>
             ELSE DecNat(n \div 10) \o <<DigitChar(n % 10)>>

\* Python str(n) / C "%d"
DecStr(n) == IF n < 0 THEN <<"-">> \o DecNat(-n) ELSE DecNat(n)

RECURSIVE PadLeft(_, _, _)
PadLeft(s, width, c) == IF Len(s) >= width THEN s
                        ELSE PadLeft(<<c>> \o s, width, c)

\* C "%02d"
Pad2(n) == PadLeft(DecStr(n), 2, "0")

\* the fixed-width zero-padded year the specification asks for
ZeroPad4(n) == IF n < 0 THEN <<"-">> \o PadLeft(DecNat(-n), 3, "0")
               ELSE PadLeft(DecNat(n), 4, "0")

\* text[j : j+len(substr)] == substr, j a 0-based offset
MatchAt(text, substr, j) ==
    /\ j >= 0
    /\ j + Len(substr) <= Len(text)
    /\ \A k \in 1..Len(substr) : text[j + k] = substr[k]

\* Python text.find(substr, i)
Find(text, substr, i) ==
    LET hits == {j \in i..(Len(text) - Len(substr)) : MatchAt(text, substr, j)}
    IN  IF hits = {} THEN -1
        ELSE CHOOSE j \in hits : \A h \in hits : j <= h

SeqToSet(s) == {s[k] : k \in 1..Len(s)}

(***************************************************************************)
(* Python values and outcomes, all of one shape: kind says which it is.    *)
(*   "None", "datetime" (dt), "str" (text) are values;                     *)
(*   "Empty" and "BadFormat" are formencode Invalid with that message;     *)
(*   "TypeError", "ValueError", "re.error", "RuntimeError" are uncaught    *)
(*   exceptions.                                                           *)
(***************************************************************************)
NoDt == [year |-> 0, month |-> 0, day |-> 0, hour |-> 0, minute |-> 0,
         second |-> 0, tzinfo |-> "None"]

DateTime(y, mo, d, h, mi, s) ==
    [year |-> y, month |-> mo, day |-> d, hour |-> h, minute |-> mi,
     second |-> s, tzinfo |-> "None"]

None == [kind |-> "None", dt |-> NoDt, text |-> <<>>]
Dt(d) == [kind |-> "datetime", dt |-> d, text |-> <<>>]
Str(s) == [kind |-> "str", dt |-> NoDt, text |-> s]
Raised(kind) == [kind |-> kind, dt |-> NoDt, text |-> <<>>]
Returned(text) == Str(text)
Pending == [kind |-> "pending", dt |-> NoDt, text |-> <<>>]

(***************************************************************************)
(* The platform formatter: time.strftime / datetime.strftime.              *)
(* t is a record year, month, day, hour, minute, second.  %s is the glibc  *)
(* extension "seconds since the epoch"; its digits are kept as one opaque  *)
(* element EpochSeconds.                                                   *)
(***************************************************************************)
EpochSeconds == "<epoch-seconds>"

Directive(c, t) ==
    CASE c = "Y" -> DecStr(t.year)
      [] c = "m" -> Pad2(t.month)
      [] c = "d" -> Pad2(t.day)
      [] c = "H" -> Pad2(t.hour)
      [] c = "M" -> Pad2(t.minute)
      [] c = "S" -> Pad2(t.second)
      [] c = "%" -> <<"%">>
      [] c = "s" -> <<EpochSeconds>>
      [] OTHER   -> <<"%", c>>

RECURSIVE StrftimeFrom(_, _, _)
StrftimeFrom(fmt, i, t) ==
    IF i > Len(fmt) THEN <<>>
    ELSE IF fmt[i] = "%" /\ i < Len(fmt)
         THEN Directive(fmt[i + 1], t) \o StrftimeFrom(fmt, i + 2, t)
         ELSE <<fmt[i]>> \o StrftimeFrom(fmt, i + 1, t)

PlatformStrftime(fmt, t) == StrftimeFrom(fmt, 1, t)

(***************************************************************************)
(* _illegal_s = re.compile(r"((^|[^%])(%%)*%s)") and its search.           *)
(* p = 0 is the ^ alternative, p >= 1 the character [^%] at offset p-1;    *)
(* n is the number of "%%" pairs that follow.                              *)
(***************************************************************************)
IllegalSNoAnchor(fmt) ==
    \E p \in 0..Len(fmt) :
        \E n \in 0..Len(fmt) :
            /\ p + 2 * n + 2 <= Len(fmt)
            /\ \A k \in (p + 1)..(p + 2 * n) : fmt[k] = "%"
            /\ fmt[p + 2 * n + 1] = "%"
            /\ fmt[p + 2 * n + 2] = "s"

_illegal_s_search(fmt) ==
    \E p \in 0..Len(fmt) :
        /\ p = 0 \/ fmt[p] # "%"
        /\ \E n \in 0..Len(fmt) :
              /\ p + 2 * n + 2 <= Len(fmt)
              /\ \A k \in (p + 1)..(p + 2 * n) : fmt[k] = "%"
              /\ fmt[p + 2 * n + 1] = "%"
              /\ fmt[p + 2 * n + 2] = "s"

(***************************************************************************)
(* _findall(text, substr): every offset of substr in text, overlaps too.   *)
(***************************************************************************)
RECURSIVE FindallFrom(_, _, _, _)
FindallFrom(text, substr, i, sites) ==
    LET j == Find(text, substr, i)
    IN  IF j = -1 THEN sites
        ELSE FindallFrom(text, substr, j + 1, Append(sites, j))

_findall(text, substr) == FindallFrom(text, substr, 0, <<>>)

(***************************************************************************)
(* strftime_before1900(dt, fmt)                                            *)
(***************************************************************************)
\* lines 115-123: the working year
ShiftedYear(y) ==
    LET delta == 2000 - y
        off   == 6 * ((delta \div 100) + (delta \div 400))
        year  == y + off
    IN  year + ((2000 - year) \div 28) * 28

\* lines 131-134: the offsets found in both strings, in sites1's order
SafeSitesFirstOnly(sites1, sites2) == sites1

SafeSites(sites1, sites2) ==
    SelectSeq(sites1, LAMBDA site : site \in SeqToSet(sites2))

\* line 137: "%4d" % (dt.year,)  -- width 4, padded with spaces
SYearShifted(y) == PadLeft(DecStr(ShiftedYear(y)), 4, " ")

SYear(y) == PadLeft(DecStr(y), 4, " ")

\* lines 138-139: s = s[:site] + syear + s[site+4:] for each site in turn
RECURSIVE SpliceAll(_, _, _, _)
SpliceAll(s, sites, k, syear) ==
    IF k > Len(sites) THEN s
    ELSE SpliceAll(SubSeq(s, 1, sites[k]) \o syear
                       \o SubSeq(s, sites[k] + 5, Len(s)),
                   sites, k + 1, syear)

WithYear(dt, y) == [dt EXCEPT !.year = y]

\* lines 124-134
Sites(dt, fmt) ==
    LET year   == ShiftedYear(dt.year)
        s1     == PlatformStrftime(fmt, WithYear(dt, year))
        sites1 == _findall(s1, DecStr(year))
        s2     == PlatformStrftime(fmt, WithYear(dt, year + 28))
        sites2 == _findall(s2, DecStr(year + 28))
    IN  SafeSites(sites1, sites2)

S1(dt, fmt) == PlatformStrftime(fmt, WithYear(dt, ShiftedYear(dt.year)))

strftime_before1900(dt, fmt) ==
    IF _illegal_s_search(fmt) THEN Raised("TypeError")
    ELSE IF dt.year > 1900 THEN Returned(PlatformStrftime(fmt, dt))
    ELSE Returned(SpliceAll(S1(dt, fmt), Sites(dt, fmt), 1, SYear(dt.year)))

(***************************************************************************)
(* DateTimeConverter._from_python(value, state), self.format = fmt         *)
(***************************************************************************)
\* Python truth value of the values modelled here
Truthy(v) == v.kind = "datetime" \/ (v.kind = "str" /\ v.text # <<>>)

FromPythonEmptyText(v, fmt) ==
    IF ~Truthy(v) THEN Str(<<>>)
    ELSE IF v.kind = "datetime"
         THEN IF v.dt.year <= 1900 THEN strftime_before1900(v.dt, fmt)
              ELSE Returned(PlatformStrftime(fmt, v.dt))
         ELSE v

_from_python(v, fmt) ==
    IF ~Truthy(v) THEN None
    ELSE IF v.kind = "datetime"
         THEN IF v.dt.year <= 1900 THEN strftime_before1900(v.dt, fmt)
              ELSE Returned(PlatformStrftime(fmt, v.dt))
         ELSE v

(***************************************************************************)
(* time.strptime(text, fmt): the format becomes a regular expression, one  *)
(* group per directive, whitespace runs become \s+, and the text must be   *)
(* matched to its end.  The match is the first one in the expression's     *)
(* priority order (each directive tries its two-character alternatives     *)
(* before its one-character one, \s+ is greedy).  A day that the month     *)
(* does not have is a ValueError; for a 29 February read without a year    *)
(* the interpreters differ, and no input here is one.                      *)
(***************************************************************************)
ParseDirectives == {"Y", "m", "d", "H", "M", "S"}

NoFields == [c \in ParseDirectives |-> -1]

\* a bad directive (KeyError) or a stray % at the end (IndexError)
RECURSIVE BadDirectiveFrom(_, _)
BadDirectiveFrom(fmt, i) ==
    IF i > Len(fmt) THEN FALSE
    ELSE IF fmt[i] = "%"
         THEN IF i = Len(fmt) THEN TRUE
              ELSE IF fmt[i + 1] \notin (ParseDirectives \cup {"%"}) THEN TRUE
              ELSE BadDirectiveFrom(fmt, i + 2)
         ELSE BadDirectiveFrom(fmt, i + 1)

\* how often directive c occurs in fmt
RECURSIVE CountDirective(_, _, _)
CountDirective(fmt, i, c) ==
    IF i >= Len(fmt) THEN 0
    ELSE IF fmt[i] = "%"
         THEN (IF fmt[i + 1] = c THEN 1 ELSE 0) + CountDirective(fmt, i + 2, c)
         ELSE CountDirective(fmt, i + 1, c)

HasDirective(fmt, c) == CountDirective(fmt, 1, c) > 0

\* two named groups of one name: re.compile raises re.error
RedefinedGroup(fmt) == \E c \in ParseDirectives : CountDirective(fmt, 1, c) > 1

CharAt(text, j) == IF j >= 1 /\ j <= Len(text) THEN text[j] ELSE "<end>"

Num2(text, j) == 10 * DigitVal(text[j]) + DigitVal(text[j + 1])

Digits2(text, j) == IsDigit(CharAt(text, j)) /\ IsDigit(CharAt(text, j + 1))

\* the two-character alternatives of a directive's group
TwoOk(c, text, j) ==
    /\ Digits2(text, j)
    /\ LET v == Num2(text, j)
       IN  CASE c = "m" -> v \in 1..12
             [] c = "d" -> v \in 1..31
             [] c = "H" -> v \in 0..23
             [] c = "M" -> v \in 0..59
             [] c = "S" -> v \in 0..61
             [] OTHER   -> FALSE

\* the one-character alternative
OneOk(c, text, j) ==
    /\ IsDigit(CharAt(text, j))
    /\ (c \in {"m", "d"} => DigitVal(text[j]) # 0)

\* the alternatives of directive c that match at text[j], in priority order
Alternatives(c, text, j) ==
    IF c = "Y"
    THEN IF Digits2(text, j) /\ Digits2(text, j + 2)
         THEN <<[len |-> 4, val |-> 100 * Num2(text, j) + Num2(text, j + 2)]>>
         ELSE <<>>
    ELSE (IF TwoOk(c, text, j)
          THEN <<[len |-> 2, val |-> Num2(text, j)]>> ELSE <<>>)
         \o (IF OneOk(c, text, j)
             THEN <<[len |-> 1, val |-> DigitVal(text[j])]>> ELSE <<>>)
         \o (IF c = "d" /\ CharAt(text, j) = " " /\ IsDigit(CharAt(text, j + 1))
                /\ CharAt(text, j + 1) # "0"
             THEN <<[len |-> 2, val |-> DigitVal(text[j + 1])]>> ELSE <<>>)

RECURSIVE SpaceRun(_, _)
SpaceRun(text, j) == IF CharAt(text, j) = " " THEN 1 + SpaceRun(text, j + 1) ELSE 0

\* \s+ is greedy: the longest run first
SpaceAlternatives(n) == [k \in 1..n |-> [len |-> n + 1 - k, val |-> 0]]

NoMatch == [ok |-> FALSE, end |-> 0, got |-> NoFields]

RECURSIVE StrpFrom(_, _, _, _, _)
RECURSIVE TryAlternatives(_, _, _, _, _, _, _, _)
TryAlternatives(fmt, inext, text, j, got, c, alts, k) ==
    IF k > Len(alts) THEN NoMatch
    ELSE LET got2 == IF c \in ParseDirectives
                     THEN [got EXCEPT ![c] = alts[k].val] ELSE got
             r    == StrpFrom(fmt, inext, text, j + alts[k].len, got2)
         IN  IF r.ok THEN r
             ELSE TryAlternatives(fmt, inext, text, j, got, c, alts, k + 1)

StrpFrom(fmt, i, text, j, got) ==
    IF i > Len(fmt) THEN [ok |-> TRUE, end |-> j, got |-> got]
    ELSE IF fmt[i] = "%"
         THEN IF fmt[i + 1] = "%"
              THEN IF CharAt(text, j) = "%"
                   THEN StrpFrom(fmt, i + 2, text, j + 1, got) ELSE NoMatch
              ELSE TryAlternatives(fmt, i + 2, text, j, got, fmt[i + 1],
                                   Alternatives(fmt[i + 1], text, j), 1)
         ELSE IF fmt[i] = " "
              THEN TryAlternatives(fmt, i + SpaceRun(fmt, i), text, j, got, " ",
                                   SpaceAlternatives(SpaceRun(text, j)), 1)
              ELSE IF CharAt(text, j) = fmt[i]
                   THEN StrpFrom(fmt, i + 1, text, j + 1, got) ELSE NoMatch

IsLeap(y) == y % 4 = 0 /\ (y % 100 # 0 \/ y % 400 = 0)

DaysInMonth(y, m) ==
    IF m = 2 THEN (IF IsLeap(y) THEN 29 ELSE 28)
    ELSE IF m \in {4, 6, 9, 11} THEN 30 ELSE 31

Field(got, c, default) == IF got[c] = -1 THEN default ELSE got[c]

\* the struct_time of the match, with strptime's defaults for absent fields
Parsed(got) ==
    [year   |-> Field(got, "Y", 1900), month  |-> Field(got, "m", 1),
     day    |-> Field(got, "d", 1),    hour   |-> Field(got, "H", 0),
     minute |-> Field(got, "M", 0),    second |-> Field(got, "S", 0),
     tzinfo |-> "None"]

\* [kind |-> "ok", tpl] or the exception raised
Strptime(text, fmt) ==
    IF BadDirectiveFrom(fmt, 1) THEN [kind |-> "ValueError", tpl |-> NoDt]
    ELSE IF RedefinedGroup(fmt) THEN [kind |-> "re.error", tpl |-> NoDt]
    ELSE LET r == StrpFrom(fmt, 1, text, 1, NoFields)
             t == Parsed(r.got)
         IN  IF ~r.ok \/ r.end # Len(text) + 1
             THEN [kind |-> "ValueError", tpl |-> NoDt]
             ELSE IF t.year < 1 \/ t.day > DaysInMonth(t.year, t.month)
                  THEN [kind |-> "ValueError", tpl |-> NoDt]
                  ELSE [kind |-> "ok", tpl |-> t]

(***************************************************************************)
(* DateTimeConverter._to_python(value, state)                              *)
(***************************************************************************)
ToPythonDayMonth(v, fmt, tzinfo) ==
    IF v.kind = "datetime" THEN v
    ELSE IF v.kind = "None" THEN Raised("TypeError")
    ELSE LET r == Strptime(v.text, fmt)
         IN  CASE r.kind = "ValueError" -> Raised("BadFormat")
               [] r.kind = "re.error"   -> Raised("re.error")
               [] OTHER ->
                    IF r.tpl.second > 59 THEN Raised("ValueError")
                    ELSE Dt([r.tpl EXCEPT !.tzinfo = tzinfo,
                                          !.month = r.tpl.day,
                                          !.day = r.tpl.month])

_to_python(v, fmt, tzinfo) ==
    IF v.kind = "datetime" THEN v
    ELSE IF v.kind = "None" THEN Raised("TypeError")
    ELSE LET r == Strptime(v.text, fmt)
         IN  CASE r.kind = "ValueError" -> Raised("BadFormat")
               [] r.kind = "re.error"   -> Raised("re.error")
               [] OTHER ->
                    IF r.tpl.second > 59 THEN Raised("ValueError")
                    ELSE Dt([r.tpl EXCEPT !.tzinfo = tzinfo])

(***************************************************************************)
(* Inputs.                                                                 *)
(***************************************************************************)
DefaultFormat == <<"%", "Y", "/", "%", "m", "/", "%", "d", " ",
                   "%", "H", ":", "%", "M">>

DateFormat == <<"%", "m", "/", "%", "d", "/", "%", "Y">>

FullFormat == DefaultFormat \o <<":", "%", "S">>

SlashFormat == <<"%", "Y", "/", "%", "m", "/", "%", "d">>

DashFormat == <<"%", "Y", "-", "%", "m", "-", "%", "d">>

ParsePatterns == {DefaultFormat, DateFormat, FullFormat, SlashFormat}

SweepPatterns == {DashFormat}

Pieces == {<<"%", "Y">>, <<"%", "m">>, <<"%", "d">>, <<"%", "H">>,
           <<"%", "M">>, <<"%", "%">>, <<"%", "s">>, <<"s">>, <<"-">>,
           <<" ">>, <<"1", "9", "9", "0">>, <<"9", "9", "1">>, <<"1", "9">>}

RECURSIVE Concats(_)
Concats(n) == IF n = 0 THEN {<<>>}
              ELSE LET prev == Concats(n - 1)
                   IN  prev \cup {p \o q : p \in prev, q \in Pieces}

PiecePatterns == Concats(MaxPieces) \ {<<>>}

Patterns == PiecePatterns \cup ParsePatterns \cup SweepPatterns

SweepDates ==
    {DateTime(y, md[1], md[2], 0, 0, 0) :
        y \in 1..(1900 + YearsBeyond), md \in {<<7, 4>>, <<1, 1>>, <<12, 31>>}}

\* dates whose fields and working years (1990, 1991, 1996) collide with the
\* digit pieces and with the later year 2018
FewDates == {DateTime(1900, 12, 19, 20, 18, 0), DateTime(5, 1, 19, 9, 0, 0),
             DateTime(1850, 7, 4, 0, 0, 0), DateTime(1901, 12, 19, 20, 18, 0),
             DateTime(2000, 2, 28, 23, 59, 0)}

RoundTripDates ==
    {DateTime(y, mo, d, h, mi, s) :
        y \in {1901, 2024}, mo \in {1, 12}, d \in {1, 31}, h \in {0, 23},
        mi \in {0, 59}, s \in {0, 30}}

DatesFor(fmt) ==
    IF fmt \in SweepPatterns THEN SweepDates \cup FewDates
    ELSE IF fmt \in ParsePatterns THEN RoundTripDates \cup FewDates
    ELSE FewDates

NotADate == <<"n", "o", "t", "-", "a", "-", "d", "a", "t", "e">>

SampleDate == DateTime(2024, 12, 31, 23, 59, 0)

\* what a form submits for a field of this format
Submitted(fmt) == {Str(<<>>), Str(NotADate),
                   Str(PlatformStrftime(fmt, SampleDate)), Dt(SampleDate)}

ConverterArgs(fmt) ==
    IF fmt \in ParsePatterns THEN BOOLEAN \X {"None", "UTC"}
    ELSE {<<TRUE, "None">>}

NoCall == [op |-> "none", fmt |-> <<>>, arg |-> None, origin |-> None]

(***************************************************************************)
(* The widgets: one CalendarDatePicker, one CalendarDateTimePicker.        *)
(***************************************************************************)
WidgetIds == {"start", "end"}

StaticResources == <<"calendar_css", "calendar_js", "calendar_setup">>

WidgetClass(w) ==
    IF w = "start"
    THEN [date_format |-> DateFormat, picker_shows_time |-> FALSE]
    ELSE [date_format |-> DefaultFormat, picker_shows_time |-> TRUE]

NoArgs == [inputField |-> "", ifFormat |-> <<>>, button |-> <<>>,
           showsTime |-> FALSE]

\* lines 199-204
Options(w) ==
    [inputField |-> w,
     ifFormat   |-> widgets[w].date_format,
     button     |-> <<w, "_trigger">>,
     showsTime  |-> widgets[w].picker_shows_time]

WidgetValues == {None, Dt(SampleDate), Str(NotADate)}

Prepares(w) == (Len(widgets[w].resources) - Len(StaticResources)) \div 2

(***************************************************************************)
(* Initial state: the module is imported, nothing is constructed yet.      *)
(***************************************************************************)
Init ==
    /\ pc = "new"
    /\ conv = [format |-> <<>>, not_empty |-> FALSE, tzinfo |-> "None"]
    /\ call = NoCall
    /\ result = Pending
    /\ depth = 0
    /\ setup_args = NoArgs
    /\ widgets = [w \in WidgetIds |->
                    [date_format       |-> WidgetClass(w).date_format,
                     picker_shows_time |-> WidgetClass(w).picker_shows_time,
                     strdate           |-> None,
                     resources         |-> StaticResources]]

(***************************************************************************)
(* DateTimeConverter.__init__(format, tzinfo, not_empty=...)               *)
(* CalendarDatePicker.post_define passes date_format, not_empty, tzinfo.   *)
(***************************************************************************)
Construct(fmt, ne, tz) ==
    /\ pc = "new"
    /\ conv' = [format |-> fmt, not_empty |-> ne, tzinfo |-> tz]
    /\ pc' = "ready"
    /\ UNCHANGED <<call, result, depth, setup_args, widgets>>

\* a direct call of _from_python
FromPython(v) ==
    /\ pc = "ready"
    /\ call' = [op |-> "_from_python", fmt |-> conv.format, arg |-> v,
                origin |-> v]
    /\ result' = _from_python(v, conv.format)
    /\ pc' = "rendered"
    /\ UNCHANGED <<conv, depth, setup_args, widgets>>

\* a direct call of _to_python on the text just rendered
ToPythonRendered ==
    /\ pc = "rendered"
    /\ result.kind = "str"
    /\ call' = [op |-> "_to_python", fmt |-> conv.format, arg |-> result,
                origin |-> call.arg]
    /\ result' = _to_python(result, conv.format, conv.tzinfo)
    /\ pc' = "parsed"
    /\ UNCHANGED <<conv, depth, setup_args, widgets>>

\* a direct call of the module-level function
StrftimeBefore1900(dt, fmt) ==
    /\ pc = "new"
    /\ call' = [op |-> "strftime_before1900", fmt |-> fmt, arg |-> Dt(dt),
                origin |-> Dt(dt)]
    /\ result' = strftime_before1900(dt, fmt)
    /\ pc' = "done"
    /\ UNCHANGED <<conv, depth, setup_args, widgets>>

(***************************************************************************)
(* The validator protocol of the host (formencode FancyValidator):         *)
(* to_python(value) answers an empty value itself, else runs _to_python    *)
(* and then validate_python on the converted value.  validate_python is    *)
(* the converter's own (lines 59-60) and calls to_python again.            *)
(***************************************************************************)
is_empty(v) == v.kind = "None" \/ (v.kind = "str" /\ v.text = <<>>)

ToPython(v) ==
    /\ pc = "ready"
    /\ conv.format \in ParsePatterns
    /\ call' = [op |-> "to_python", fmt |-> conv.format, arg |-> v,
                origin |-> v]
    /\ depth' = 1
    /\ pc' = "to_python"
    /\ UNCHANGED <<conv, result, setup_args, widgets>>

ToPythonBody ==
    /\ pc = "to_python"
    /\ LET r == _to_python(call.arg, conv.format, conv.tzinfo)
       IN  IF is_empty(call.arg)
           THEN /\ result' = IF conv.not_empty THEN Raised("Empty") ELSE None
                /\ pc' = "done"
                /\ call' = call
           ELSE IF r.kind # "datetime"
                THEN /\ result' = r
                     /\ pc' = "done"
                     /\ call' = call
                ELSE /\ result' = result
                     /\ pc' = "validate_python"
                     /\ call' = [call EXCEPT !.arg = r]
    /\ UNCHANGED <<conv, depth, setup_args, widgets>>

\* lines 59-60: return self.to_python(value, state)
validate_python ==
    /\ pc = "validate_python"
    /\ IF depth >= RecursionLimit
       THEN /\ result' = Raised("RuntimeError")
            /\ pc' = "done"
            /\ depth' = depth
       ELSE /\ result' = result
            /\ pc' = "to_python"
            /\ depth' = depth + 1
    /\ UNCHANGED <<conv, call, setup_args, widgets>>

(***************************************************************************)
(* CalendarDatePicker.prepare(), self.value = v.  setup_calendar is the    *)
(* one module-level object: the list of each widget holds a reference to   *)
(* it, and its args are those of the last assignment.  Each widget is      *)
(* given a resources list of its own.                                      *)
(***************************************************************************)
prepare(w, v) ==
    /\ pc \in {"new", "prepared"}
    /\ Prepares("start") + Prepares("end") < MaxPrepares
    /\ pc' = "prepared"
    /\ setup_args' = Options(w)
    /\ widgets' = [widgets EXCEPT
          ![w].strdate = IF v.kind = "datetime"
                         THEN Str(PlatformStrftime(widgets[w].date_format, v.dt))
                         ELSE v,
          ![w].resources = widgets[w].resources
                              \o <<"setup_calendar", "calendar-en.js">>]
    /\ UNCHANGED <<conv, call, result, depth>>

Next ==
    \/ /\ pc = "new"
       /\ \E fmt \in Patterns : \E a \in ConverterArgs(fmt) :
             Construct(fmt, a[1], a[2])
    \/ /\ pc = "ready"
       /\ \E v \in {None, Str(<<>>), Str(NotADate)}
                      \cup {Dt(d) : d \in DatesFor(conv.format)} : FromPython(v)
    \/ ToPythonRendered
    \/ /\ pc = "new"
       /\ \E fmt \in Patterns : \E dt \in DatesFor(fmt) :
             StrftimeBefore1900(dt, fmt)
    \/ /\ pc = "ready"
       /\ \E v \in Submitted(conv.format) : ToPython(v)
    \/ ToPythonBody
    \/ validate_python
    \/ \E w \in WidgetIds : \E v \in WidgetValues : prepare(w, v)

Spec == Init /\ [][Next]_vars

(***************************************************************************)
(* What the claims speak of, stated apart from the code's operators.       *)
(***************************************************************************)
\* the pattern read left to right as two-character directives and literals
RECURSIVE HasPercentSFrom(_, _)
HasPercentSFrom(fmt, i) ==
    IF i >= Len(fmt) THEN FALSE
    ELSE IF fmt[i] = "%"
         THEN fmt[i + 1] = "s" \/ HasPercentSFrom(fmt, i + 2)
         ELSE HasPercentSFrom(fmt, i + 1)

HasPercentS(fmt) == HasPercentSFrom(fmt, 1)

\* length of the maximal run of % that ends just before index k
RECURSIVE PercentRun(_, _)
PercentRun(fmt, k) ==
    IF k > 1 /\ fmt[k - 1] = "%" THEN 1 + PercentRun(fmt, k - 1) ELSE 0

OddRunBeforeS(fmt) ==
    \E k \in 1..Len(fmt) : fmt[k] = "s" /\ PercentRun(fmt, k) % 2 = 1

\* the 0-based offsets of the output at which a %Y field starts
RECURSIVE YearOffsetsFrom(_, _, _, _)
YearOffsetsFrom(fmt, i, t, outlen) ==
    IF i > Len(fmt) THEN {}
    ELSE IF fmt[i] = "%" /\ i < Len(fmt)
         THEN (IF fmt[i + 1] = "Y" THEN {outlen} ELSE {})
              \cup YearOffsetsFrom(fmt, i + 2, t,
                                   outlen + Len(Directive(fmt[i + 1], t)))
         ELSE YearOffsetsFrom(fmt, i + 1, t, outlen + 1)

YearOffsets(fmt, t) == YearOffsetsFrom(fmt, 1, t, 0)

\* only %Y %m %d %H %M %S, %% and literal text, no directive twice
SupportedOnce(fmt) == ~BadDirectiveFrom(fmt, 1) /\ ~RedefinedGroup(fmt)

SixFields(d) == <<d.year, d.month, d.day, d.hour, d.minute, d.second>>

\* v's field is written by the pattern, or is what strptime assumes for it
FieldKept(fmt, d) ==
    /\ HasDirective(fmt, "Y") \/ d.year = 1900
    /\ HasDirective(fmt, "m") \/ d.month = 1
    /\ HasDirective(fmt, "d") \/ d.day = 1
    /\ HasDirective(fmt, "H") \/ d.hour = 0
    /\ HasDirective(fmt, "M") \/ d.minute = 0
    /\ HasDirective(fmt, "S") \/ d.second = 0

\* days from 1 January of year 1 to 1 January of year y, proleptic Gregorian
DaysBeforeYear(y) ==
    365 * (y - 1) + ((y - 1) \div 4) - ((y - 1) \div 100) + ((y - 1) \div 400)

Jan1Weekday(y) == DaysBeforeYear(y) % 7

LegacyCall == pc = "done" /\ call.op = "strftime_before1900"
                /\ call.arg.dt.year <= 1900

Rendered == pc = "rendered" /\ call.op = "_from_python"

(***************************************************************************)
(* C1: for every datetime with year in 1000..1900, _from_python with       *)
(* pattern "%Y-%m-%d" returns the true year in four digits, "-", the       *)
(* two-digit month, "-", the two-digit day.                                *)
(***************************************************************************)
C1_TrueYearRendered ==
    (/\ Rendered
     /\ call.fmt = DashFormat
     /\ call.arg.kind = "datetime"
     /\ call.arg.dt.year \in 1000..1900)
    => result = Str(ZeroPad4(call.arg.dt.year) \o <<"-">>
                    \o Pad2(call.arg.dt.month) \o <<"-">>
                    \o Pad2(call.arg.dt.day))

C1_Witness ==
    /\ Rendered
    /\ call.fmt = DashFormat
    /\ call.arg = Dt(DateTime(1850, 7, 4, 0, 0, 0))
    /\ result = Str(<<"1", "8", "5", "0", "-", "0", "7", "-", "0", "4">>)

(***************************************************************************)
(* C2 as claimed, at the default pattern it names: for any datetime v with *)
(* year > 1900, parsing the text rendered with "%Y/%m/%d %H:%M" gives back *)
(* v on year, month, day, hour, minute and second.                         *)
(***************************************************************************)
C2_RoundTripDefaultFormat ==
    (/\ pc = "parsed"
     /\ call.origin.kind = "datetime"
     /\ call.origin.dt.year > 1900
     /\ call.fmt = DefaultFormat)
    => /\ result.kind = "datetime"
       /\ SixFields(result.dt) = SixFields(call.origin.dt)

(***************************************************************************)
(* C2 amended: the round trip through _from_python and _to_python gives    *)
(* back v on all six fields when every field of v is either written by a   *)
(* directive of the pattern (each at most once) or has the value strptime  *)
(* assumes for an absent field (month 1, day 1, hour, minute, second 0).   *)
(***************************************************************************)
C2_RoundTripKeptFields ==
    (/\ pc = "parsed"
     /\ call.origin.kind = "datetime"
     /\ call.origin.dt.year > 1900
     /\ SupportedOnce(call.fmt)
     /\ FieldKept(call.fmt, call.origin.dt))
    => /\ result.kind = "datetime"
       /\ SixFields(result.dt) = SixFields(call.origin.dt)

C2_Witness ==
    /\ pc = "parsed"
    /\ call.fmt = DefaultFormat
    /\ call.origin = Dt(DateTime(2024, 12, 31, 23, 59, 0))
    /\ call.arg.text = <<"2", "0", "2", "4", "/", "1", "2", "/", "3", "1", " ",
                         "2", "3", ":", "5", "9">>
    /\ result.kind = "datetime"
    /\ SixFields(result.dt) = <<2024, 12, 31, 23, 59, 0>>

(***************************************************************************)
(* C3: strftime_before1900 raises TypeError exactly when the pattern,      *)
(* read left to right, holds a %s directive (an s after a maximal run of   *)
(* % of odd length), whatever the year; otherwise it returns a string.     *)
(***************************************************************************)
C3_RejectsPercentS ==
    (pc = "done" /\ call.op = "strftime_before1900")
    => /\ result.kind \in {"TypeError", "str"}
       /\ (result.kind = "TypeError") <=> HasPercentS(call.fmt)
       /\ (result.kind = "TypeError") <=> OddRunBeforeS(call.fmt)

C3_Witness ==
    /\ pc = "done"
    /\ call.op = "strftime_before1900"
    /\ call.fmt = <<"%", "%", "%", "s">>
    /\ call.arg.dt.year = 2000
    /\ result.kind = "TypeError"

(***************************************************************************)
(* C4 as claimed: with not_empty set, parsing the empty text fails with    *)
(* Empty; rendering an empty/None value returns the empty string "".       *)
(***************************************************************************)
C4_RenderNoneIsEmptyText ==
    /\ (pc = "done" /\ call.op = "to_python" /\ call.origin = Str(<<>>)
           /\ conv.not_empty) => result.kind = "Empty"
    /\ (Rendered /\ call.arg \in {None, Str(<<>>)}) => result = Str(<<>>)

(***************************************************************************)
(* C4 amended: with not_empty set, parsing the empty text fails with       *)
(* Empty; rendering an empty/None value returns None and raises nothing.   *)
(***************************************************************************)
C4_RenderNoneIsNone ==
    /\ (pc = "done" /\ call.op = "to_python" /\ call.origin = Str(<<>>)
           /\ conv.not_empty) => result.kind = "Empty"
    /\ (Rendered /\ call.arg \in {None, Str(<<>>)}) => result = None

C4_Witness ==
    /\ Rendered
    /\ conv.not_empty
    /\ call.arg = None
    /\ result = None

(***************************************************************************)
(* C5: every parse ends with a datetime (or the empty value), Empty or     *)
(* BadFormat; a non-empty text that does not match yields BadFormat; the   *)
(* re-entry of to_python from validate_python does not recurse on.         *)
(***************************************************************************)
C5_ParseOutcome ==
    (pc = "done" /\ call.op = "to_python")
    => /\ result.kind \in {"datetime", "None", "Empty", "BadFormat"}
       /\ call.origin = Str(NotADate) => result.kind = "BadFormat"

(***************************************************************************)
(* C6: a converter whose pattern holds an unescaped %s is rejected when it *)
(* is constructed, so no render returns text in which the platform         *)
(* formatter substituted %s.                                               *)
(***************************************************************************)
C6_NoPercentSSubstituted ==
    (Rendered /\ result.kind = "str")
    => EpochSeconds \notin SeqToSet(result.text)

(***************************************************************************)
(* C7: the Calendar.setup options registered for a widget by its prepare   *)
(* are still that widget's own after another widget's prepare has run.     *)
(***************************************************************************)
C7_OwnSetupOptions ==
    \A w \in WidgetIds :
        (\E k \in 1..Len(widgets[w].resources) :
            widgets[w].resources[k] = "setup_calendar")
        => setup_args = Options(w)

(***************************************************************************)
(* C8: for year <= 1900 the characters of s1 overwritten by the true year  *)
(* are exactly those a %Y directive produced: the safe offsets are the     *)
(* offsets of the %Y fields, every other character is that of s1.          *)
(***************************************************************************)
C8_OnlyYearFieldsReplaced ==
    (LegacyCall /\ result.kind = "str")
    => LET dt   == call.arg.dt
           s1   == S1(dt, call.fmt)
           offs == YearOffsets(call.fmt, WithYear(dt, ShiftedYear(dt.year)))
       IN  /\ SeqToSet(Sites(dt, call.fmt)) = offs
           /\ Len(result.text) = Len(s1)
           /\ \A i \in 1..Len(s1) :
                 IF \E o \in offs : i - 1 \in o..(o + 3)
                 THEN \E o \in offs : /\ i - 1 \in o..(o + 3)
                                      /\ result.text[i] = SYear(dt.year)[i - o]
                 ELSE result.text[i] = s1[i]

C8_Witness ==
    /\ LegacyCall
    /\ call.fmt = <<"1", "9", "9", "0", " ", "%", "Y">>
    /\ call.arg.dt.year = 1900
    /\ S1(call.arg.dt, call.fmt)
          = <<"1", "9", "9", "0", " ", "1", "9", "9", "0">>
    /\ result = Str(<<"1", "9", "9", "0", " ", "1", "9", "0", "0">>)

(***************************************************************************)
(* C9: for every year y <= 1900 the working year of steps 3 and 4 is a     *)
(* leap year iff y is, and its 1 January falls on the weekday of y's.      *)
(***************************************************************************)
C9_SameCalendar ==
    LegacyCall
    => LET y == call.arg.dt.year
       IN  /\ IsLeap(ShiftedYear(y)) <=> IsLeap(y)
           /\ Jan1Weekday(ShiftedYear(y)) = Jan1Weekday(y)

(***************************************************************************)
(* C10: for a true year of fewer than four digits the text spliced in at   *)
(* each safe offset is the year as a 4-character zero-padded decimal, and  *)
(* the result is as long as s1.                                            *)
(***************************************************************************)
C10_ZeroPaddedYear ==
    (LegacyCall /\ result.kind = "str" /\ call.arg.dt.year < 1000)
    => /\ Len(result.text) = Len(S1(call.arg.dt, call.fmt))
       /\ \A k \in 1..Len(Sites(call.arg.dt, call.fmt)) :
             LET o == Sites(call.arg.dt, call.fmt)[k]
             IN  SubSeq(result.text, o + 1, o + 4) = ZeroPad4(call.arg.dt.year)

====
